---------------------------- MODULE Spec2Model ----------------------------
(***************************************************************************)
(* Touch dispatch and interactive-widget state machine of ugui.py.         *)
(*                                                                         *)
(* The heap of the GUI is the class-level touch registry                   *)
(* (Touchable.touchlist), the composite controllers (ButtonList,           *)
(* RadioButtons, IconRadioButtons) and the pending Delay timers.  A widget *)
(* is identified by its position in touchlist (1-based); 0 stands for      *)
(* Python's None where an object reference is expected.                    *)
(*                                                                         *)
(* Every operation (constructor, one iteration of the _touchtest loop, a   *)
(* value() call, a timer firing) is one action.  The handlers an operation *)
(* invokes are recorded, in order, in `calls`; `op` names the operation    *)
(* and its inputs.  `cycle` and `hist` summarise the current contact (from *)
(* the first ready sample to the no-contact iteration that ends it).       *)
(***************************************************************************)
EXTENDS Integers, Sequences, FiniteSets, TLC

VARIABLES
    touchlist,   \* Touchable.touchlist: the registered widgets, in order
    notouch,     \* the NoTouch widgets (Meter) the application has built
    objtouch,    \* Touchable.objtouch: None until the first construction
    threads,     \* number of _touchtest threads handed to the scheduler
    buttonlist,  \* a ButtonList instance: lstbuttons, current
    radio,       \* a RadioButtons instance
    iconradio,   \* an IconRadioButtons instance
    timers,      \* widgets whose Delay is triggered and has not fired yet
    op,          \* the last operation and its inputs
    calls,       \* handler and callback invocations of the last operation
    cycle,       \* summary of the current (or last) contact
    hist         \* per widget: summary of the current (or last) contact

vars == <<touchlist, notouch, objtouch, threads, buttonlist, radio, iconradio,
          timers, op, calls, cycle, hist>>

\* ------------------------------------------------------------- bounds

\* Largest number of widgets constructed.
MaxWidgets == 3

\* Largest number of move callbacks nested on the call stack.
MaxReentry == 2

\* Largest number of Meters constructed.
MaxMeters == 1

\* Largest number of sliders and knobs on the continuous screen.
MaxControls == 1

\* Largest number of stand-alone icon buttons and checkboxes on a screen.
MaxIcons == 2

\* Largest number of stand-alone Buttons in a row.
MaxButtons == 2

\* ---------------------------------------------------------- constants

None == "None"

\* No object (Python None where a widget reference is expected).
NoObj == 0

\* Colours.  TftColor is what tft.getColor() returns when fgcolor is None.
TftColor == "tft"
GREY == "GREY"
BLUE == "BLUE"
WHITE == "WHITE"

\* ------------------------------------------------------------ helpers

\* list.index(x): 0-based position of the first occurrence of x.
Index0(lst, x) ==
    (CHOOSE k \in 1..Len(lst) : lst[k] = x /\ \A j \in 1..(k - 1) : lst[j] # x) - 1

\* One invocation of a handler or callback: the function, the object it is
\* invoked on (or passed as first argument), and the remaining arguments.
Call(fn, obj, args) == [fn |-> fn, obj |-> obj, args |-> args]

Log(h, c) == [h EXCEPT !.calls = Append(@, c)]

\* Number of invocations of fn on obj recorded in a log.
Count(log, fn, obj) ==
    Cardinality({k \in 1..Len(log) : log[k].fn = fn /\ log[k].obj = obj})

\* A history counter: 0, 1, or 2 for "more than once".
Bump(n) == IF n >= 2 THEN 2 ELSE n + 1

\* The summaries of a contact before its first sample: cycle, and hist of
\* one widget.
NoCycle ==
    [phase |-> "idle", advances |-> 0, values |-> FALSE, adds |-> FALSE,
     current0 |-> NoObj]

NoHist == [touched |-> 0, inbox |-> FALSE, enabled0 |-> FALSE]

\* The heap the handlers work on; depth counts the move callbacks that are
\* on the call stack and raised is the exception that is propagating (None
\* for none).
Heap ==
    [tl |-> touchlist, nt |-> notouch, bl |-> buttonlist, rb |-> radio,
     irb |-> iconradio, timers |-> timers, calls |-> <<>>, hist |-> hist,
     cycle |-> cycle, depth |-> 0, raised |-> None]

Commit(h) ==
    /\ touchlist' = h.tl
    /\ notouch' = h.nt
    /\ buttonlist' = h.bl
    /\ radio' = h.rb
    /\ iconradio' = h.irb
    /\ timers' = h.timers
    /\ calls' = h.calls
    /\ hist' = h.hist
    /\ cycle' = h.cycle

\* ------------------------------------------------------- base classes

\* Touchable.__init__: the fields every touchable widget starts with.
Touchable(location, height, width, fgcolor, can_drag) ==
    [location |-> location, height |-> height, width |-> width,
     fgcolor |-> IF fgcolor # None THEN fgcolor ELSE TftColor,
     can_drag |-> can_drag, busy |-> FALSE, enabled |-> TRUE,
     was_touched |-> FALSE]

\* Touchable.touchlist.append(self), with the history entry of the widget.
Register(h, w) ==
    [h EXCEPT !.tl = Append(@, w),
              !.hist = Append(@, NoHist)]

\* Delay.trigger(duration): (re)arms the widget's one-shot timer.
DelayTrigger(h, i) == [h EXCEPT !.timers = @ \cup {i}]

\* ---------------------------------------------------------- ButtonList

\* Mutant of ButtonList_callback: the pressed button stays enabled.
ButtonList_callback_KeepsOld(h, button, args) ==
    LET lst == h.bl.lstbuttons
        new == lst[((Index0(lst, button) + 1) % Len(lst)) + 1]
        h1 == [h EXCEPT !.bl.current = new]
        h3 == [h1 EXCEPT !.tl[new].enabled = TRUE, !.tl[new].visible = TRUE,
                         !.tl[new].busy = TRUE]
        h4 == [h3 EXCEPT !.cycle.advances = Bump(@)]
    IN  Log(Log(h4, Call("ButtonList._callback", button, args)),
            Call("user_callback", new, args))

\* Mutant of ButtonList_callback: the successor is not marked busy.
ButtonList_callback_NotBusy(h, button, args) ==
    LET lst == h.bl.lstbuttons
        old == button
        new == lst[((Index0(lst, button) + 1) % Len(lst)) + 1]
        h1 == [h EXCEPT !.bl.current = new]
        h2 == [h1 EXCEPT !.tl[old].enabled = FALSE, !.tl[old].visible = FALSE]
        h3 == [h2 EXCEPT !.tl[new].enabled = TRUE, !.tl[new].visible = TRUE]
        h4 == [h3 EXCEPT !.cycle.advances = Bump(@)]
    IN  Log(Log(h4, Call("ButtonList._callback", button, args)),
            Call("user_callback", new, args))

\* Mutant of ButtonList_callback: the user callback gets the pressed button.
ButtonList_callback_PassesOld(h, button, args) ==
    LET lst == h.bl.lstbuttons
        old == button
        new == lst[((Index0(lst, button) + 1) % Len(lst)) + 1]
        h1 == [h EXCEPT !.bl.current = new]
        h2 == [h1 EXCEPT !.tl[old].enabled = FALSE, !.tl[old].visible = FALSE]
        h3 == [h2 EXCEPT !.tl[new].enabled = TRUE, !.tl[new].visible = TRUE,
                         !.tl[new].busy = TRUE]
        h4 == [h3 EXCEPT !.cycle.advances = Bump(@)]
    IN  Log(Log(h4, Call("ButtonList._callback", button, args)),
            Call("user_callback", old, args))

\* ButtonList._callback(button, *args)
ButtonList_callback(h, button, args) ==
    LET lst == h.bl.lstbuttons
        old == button
        old_index == Index0(lst, button)
        new == lst[((old_index + 1) % Len(lst)) + 1]
        h1 == [h EXCEPT !.bl.current = new]
        h2 == [h1 EXCEPT !.tl[old].enabled = FALSE, !.tl[old].visible = FALSE]
        h3 == [h2 EXCEPT !.tl[new].enabled = TRUE, !.tl[new].visible = TRUE,
                         !.tl[new].busy = TRUE]
        h4 == [h3 EXCEPT !.cycle.advances = Bump(@)]
    IN  Log(Log(h4, Call("ButtonList._callback", button, args)),
            Call("user_callback", new, args))

\* Mutant of ButtonList_value: the old current member is left as it was.
ButtonList_value_KeepsOld(h, button) ==
    IF button # NoObj /\ button # h.bl.current
    THEN LET new == button
             h1 == [h EXCEPT !.bl.current = new]
             h3 == [h1 EXCEPT !.tl[new].enabled = TRUE, !.tl[new].visible = TRUE]
         IN  Log(h3, Call("user_callback", new, h3.tl[new].callback_args))
    ELSE h

\* ButtonList.value(button); the return value is the current member.
ButtonList_value(h, button) ==
    IF button # NoObj /\ button # h.bl.current
    THEN LET old == h.bl.current
             new == button
             h1 == [h EXCEPT !.bl.current = new]
             h2 == [h1 EXCEPT !.tl[old].enabled = FALSE, !.tl[old].visible = FALSE]
             h3 == [h2 EXCEPT !.tl[new].enabled = TRUE, !.tl[new].visible = TRUE]
         IN  Log(h3, Call("user_callback", new, h3.tl[new].callback_args))
    ELSE h

\* -------------------------------------------------------- RadioButtons

\* RadioButtons._callback(button, *args)
RECURSIVE RadioButtons_loop(_, _, _)
RadioButtons_loop(h, k, button) ==
    IF k > Len(h.rb.lstbuttons) THEN h
    ELSE LET but == h.rb.lstbuttons[k]
             h1 == IF but = button
                   THEN [h EXCEPT !.tl[but].fgcolor = h.rb.highlight,
                                  !.rb.current = button]
                   ELSE [h EXCEPT !.tl[but].fgcolor = h.tl[but].orig_fgcolor]
         IN  RadioButtons_loop(h1, k + 1, button)

\* What the user callback of a radio group finds when it runs: the members
\* that are highlighted.
RadioButtons_seen(h, button) ==
    Call("selected", button,
         <<{b \in 1..Len(h.tl) : b \in {h.rb.lstbuttons[k] : k \in 1..Len(h.rb.lstbuttons)}
                                   /\ h.tl[b].fgcolor = h.rb.highlight}>>)

\* Mutant of RadioButtons_callback: the user callback runs before the
\* members are updated.
RadioButtons_callback_CallsFirst(h, button, args) ==
    LET h1 == Log(h, Call("RadioButtons._callback", button, args))
        h2 == Log(Log(h1, RadioButtons_seen(h1, button)),
                  Call("user_callback", button, args))
    IN  RadioButtons_loop(h2, 1, button)

RadioButtons_callback(h, button, args) ==
    LET h1 == RadioButtons_loop(Log(h, Call("RadioButtons._callback", button, args)),
                                1, button)
    IN  Log(Log(h1, RadioButtons_seen(h1, button)),
            Call("user_callback", button, args))

\* RadioButtons.value(button); the return value is the current member.
RadioButtons_value(h, button) ==
    IF button # NoObj /\ button # h.rb.current
    THEN RadioButtons_callback(h, button, h.tl[button].callback_args)
    ELSE h

\* -------------------------------------------------------------- Button

\* Button.__init__ up to `if show`; the widget is not yet registered.
Button(location, height, width, fgcolor, litcolor, args) ==
    [cls |-> "Button", litcolor |-> litcolor, callback |-> "user",
     callback_args |-> args, orig_fgcolor |-> fgcolor,
     has_delay |-> litcolor # None, visible |-> TRUE]
    @@ Touchable(location, height, width, fgcolor, FALSE)

\* self.callback(self, *self.callback_args): the callback slot of a Button
\* holds the user's function or a controller's bound _callback.
Button_callback(h, i) ==
    LET b == h.tl[i] IN
    CASE b.callback = "ButtonList._callback" ->
             ButtonList_callback(h, i, b.callback_args)
      [] b.callback = "RadioButtons._callback" ->
             RadioButtons_callback(h, i, b.callback_args)
      [] OTHER -> Log(h, Call("callback", i, b.callback_args))

\* Button._shownormal
Button_shownormal(h, i) ==
    [h EXCEPT !.tl[i].fgcolor = h.tl[i].orig_fgcolor]

\* Button._touched
Button_touched(h, i, x, y) ==
    LET h1 == IF h.tl[i].litcolor # None
              THEN DelayTrigger([h EXCEPT !.tl[i].fgcolor = h.tl[i].litcolor], i)
              ELSE h
    IN  Button_callback(h1, i)

\* ---------------------------------------- IconButton, IconRadioButtons

\* IconButton._show(state)
IconButton_show(h, i, state) == [h EXCEPT !.tl[i].state = state]

\* IconRadioButtons._callback(button, *args): every member shows icon 1 or
\* icon 0; the order in which the set is walked does not matter.
IconRadioButtons_callback(h, button, args) ==
    LET h1 == Log(h, Call("IconRadioButtons._callback", button, args))
        h2 == [h1 EXCEPT !.tl = [i \in 1..Len(h1.tl) |->
                  IF i \in h1.irb.setbuttons
                  THEN [h1.tl[i] EXCEPT !.state = IF i = button THEN 1 ELSE 0]
                  ELSE h1.tl[i]]]
    IN  Log(Log(h2, Call("selected", button,
                         <<{b \in h2.irb.setbuttons : h2.tl[b].state = 1}>>)),
            Call("user_callback", button, args))

\* self.callback(self, *self.callback_args) of an IconButton.
IconButton_callback(h, i) ==
    LET b == h.tl[i] IN
    CASE b.callback = "IconRadioButtons._callback" ->
             IconRadioButtons_callback(h, i, b.callback_args)
      [] OTHER -> Log(h, Call("callback", i, b.callback_args))

\* IconButton.__init__ for a state inside [0, num_icons) and, when flash is
\* set, at least two icons; the widget is not yet registered.
IconButton(location, height, width, num_icons, flash, toggle, args, state) ==
    [cls |-> "IconButton", num_icons |-> num_icons, callback |-> "user",
     callback_args |-> args, flash |-> flash, toggle |-> toggle,
     state |-> state, has_delay |-> flash > 0]
    @@ Touchable(location, height, width, None, FALSE)

\* The state of an IconButton whose __init__ was interrupted before the
\* attribute was assigned: no icon index.
Unset == -1

\* The exception IconButton.__init__ raises: an icon index out of range, or
\* a flashing button with fewer than two icons.
IconButton_raises(num_icons, flash, state) ==
    IF state >= num_icons \/ state < 0 THEN "ugui_exception"
    ELSE IF flash > 0 /\ num_icons < 2 THEN "ugui_exception"
    ELSE None

\* The object IconButton.__init__ leaves behind: the first raise comes
\* before state and delay are assigned, the second after state and before
\* delay.
IconButton_init(location, height, width, num_icons, flash, toggle, args, state) ==
    LET w == IconButton(location, height, width, num_icons, flash, toggle,
                        args, state)
    IN  IF state >= num_icons \/ state < 0
        THEN [w EXCEPT !.state = Unset, !.has_delay = FALSE]
        ELSE IF flash > 0 /\ num_icons < 2
        THEN [w EXCEPT !.has_delay = FALSE]
        ELSE w

\* The range test of IconButton.value: val is a valid icon index.
ValidIcon(w, val) == ~(val >= w.num_icons \/ val < 0)

\* Mutant of IconButton_value: an index out of range is clamped into range.
IconButton_value_Clamps(h, i, val) ==
    LET n == h.tl[i].num_icons
        v == IF val < 0 THEN 0 ELSE IF val >= n THEN n - 1 ELSE val
    IN  IF v # h.tl[i].state
        THEN IconButton_callback(IconButton_show(h, i, v), i)
        ELSE h

\* Mutant of IconButton_value: the callback is not gated by a change of
\* state.
IconButton_value_Ungated(h, i, val) ==
    IF ValidIcon(h.tl[i], val)
    THEN IconButton_callback(IconButton_show(h, i, val), i)
    ELSE h

\* IconButton.value(val); an index out of range raises ugui_exception before
\* anything is changed, and so does the read of a state that was never
\* assigned (AttributeError).  The return value is the state afterwards.
IconButton_value(h, i, val) ==
    IF ~ValidIcon(h.tl[i], val) THEN h
    ELSE IF h.tl[i].state = Unset THEN h
    ELSE IF val # h.tl[i].state
    THEN IconButton_callback(IconButton_show(h, i, val), i)
    ELSE h

\* Mutant of IconButton_touched: a flashing button does not show icon 1.
IconButton_touched_NoFlash(h, i, x, y) ==
    LET h1 == IF h.tl[i].flash > 0
              THEN DelayTrigger(h, i)
              ELSE IF h.tl[i].toggle
              THEN IconButton_show(h, i, (h.tl[i].state + 1) % h.tl[i].num_icons)
              ELSE h
    IN  IconButton_callback(h1, i)

\* IconButton._touched; on an object whose __init__ was interrupted the
\* read of delay or of state raises AttributeError before the callback.
IconButton_touched(h, i, x, y) ==
    IF h.tl[i].flash > 0 /\ ~h.tl[i].has_delay
    THEN [IconButton_show(h, i, 1) EXCEPT !.raised = "AttributeError"]
    ELSE IF h.tl[i].flash = 0 /\ h.tl[i].toggle /\ h.tl[i].state = Unset
    THEN [h EXCEPT !.raised = "AttributeError"]
    ELSE
    LET h1 == IF h.tl[i].flash > 0
              THEN DelayTrigger(IconButton_show(h, i, 1), i)
              ELSE IF h.tl[i].toggle
              THEN IconButton_show(h, i, (h.tl[i].state + 1) % h.tl[i].num_icons)
              ELSE h
    IN  IconButton_callback(h1, i)

\* Mutant of IconRadioButtons_value: membership is not tested.
IconRadioButtons_value_AnyButton(h, but) ==
    IF but # NoObj /\ h.tl[but].state = 0
    THEN IconRadioButtons_callback(h, but, h.tl[but].callback_args)
    ELSE h

\* IconRadioButtons.value(but) up to the resultset query; but is a widget
\* or None.  A widget that is not in setbuttons raises ugui_exception
\* before anything is changed.
IconRadioButtons_value(h, but) ==
    IF but # NoObj /\ but \notin h.irb.setbuttons THEN h
    ELSE IF but # NoObj /\ h.tl[but].state = 0
    THEN IconRadioButtons_callback(h, but, h.tl[but].callback_args)
    ELSE h

\* ------------------------------------------------------------ Checkbox

\* bool(val) of an integer.
Bool(val) == val # 0

\* Mutant of Checkbox_value: the callback is not gated by a change of
\* value.
Checkbox_value_Ungated(h, i, val) ==
    IF val # <<>>
    THEN Log(Log([h EXCEPT !.tl[i]._value = Bool(val[1])],
                 Call("callback", i, h.tl[i].callback_args)),
             Call("_show", i, <<>>))
    ELSE h

\* Checkbox.value(val); val is <<>> for None and <<n>> for the integer n.
Checkbox_value(h, i, val) ==
    IF val # <<>> /\ Bool(val[1]) # h.tl[i]._value
    THEN Log(Log([h EXCEPT !.tl[i]._value = Bool(val[1])],
                 Call("callback", i, h.tl[i].callback_args)),
             Call("_show", i, <<>>))
    ELSE h

\* Checkbox.__init__ up to the branch on value; the box is as wide as it is
\* high.
Checkbox(location, height, args) ==
    [cls |-> "Checkbox", callback |-> "user", callback_args |-> args,
     _value |-> FALSE]
    @@ Touchable(location, height, height, None, FALSE)

\* Checkbox._touched
Checkbox_touched(h, i, x, y) ==
    Checkbox_value(h, i, <<IF h.tl[i]._value THEN 0 ELSE 1>>)

\* -------------------------------------------------- continuous widgets

\* A continuous value is held as a whole number of steps of 1 / Steps(w):
\* of 1 / pot_dimension for the sliders (the resolution of a touch), of a
\* quarter for a Knob (the turn an axis-aligned touch gives) and of a half
\* for a Meter.  1.0 is Steps(w) and the invalid -1 is -Steps(w).
Steps(w) ==
    CASE w.cls \in {"Slider", "HorizSlider"} -> w.pot_dimension
      [] w.cls = "Knob" -> 4
      [] w.cls = "Meter" -> 2

\* min(max(val, 0.0), 1.0) on numerators over pot.
Clamp(n, pot) == IF n < 0 THEN 0 ELSE IF n > pot THEN pot ELSE n

RECURSIVE Slider_value(_, _, _, _)
RECURSIVE HorizSlider_value(_, _, _, _)
RECURSIVE Knob_value(_, _, _)
RECURSIVE MoveCallback(_, _)

\* widget.value(val) on touchable widget i, by class.
Widget_value(h, i, val) ==
    CASE h.tl[i].cls = "Slider" -> Slider_value(h, i, val, None)
      [] h.tl[i].cls = "HorizSlider" -> HorizSlider_value(h, i, val, None)
      [] h.tl[i].cls = "Knob" -> Knob_value(h, i, val)

\* self.cb_move(self, *self.cbm_args).  The application's callback is
\* dolittle, or ("reenter") one that, like master_moved and slave_moved of
\* hst.py, reads widget.value() and then calls widget.value(val) with what it
\* read.  At most MaxReentry callbacks are nested.
MoveCallback(h, i) ==
    LET h1 == Log(h, Call("cb_move", i, h.tl[i].cbm_args))
    IN  IF h.tl[i].cb_move = "reenter" /\ h.depth < MaxReentry
        THEN LET val == h1.tl[i]._value
                 h2 == Log(h1, Call("value()", i, <<val>>))
                 h3 == Widget_value([h2 EXCEPT !.depth = @ + 1], i, <<val>>)
             IN  [h3 EXCEPT !.depth = h.depth]
        ELSE h1

\* Mutant of Slider_value: the move callback and the redraw are not gated
\* by a change of value.
Slider_value_Ungated(h, i, val, color) ==
    IF val # <<>>
    THEN LET v == Clamp(val[1], h.tl[i].pot_dimension)
             h2 == [h EXCEPT !.tl[i]._value = v, !.tl[i]._old_value = v]
         IN  Log(MoveCallback(h2, i), Call("_show", i, <<>>))
    ELSE h

\* Mutant of Slider_value: _old_value is committed after the move callback
\* has returned.
Slider_value_CommitsLate(h, i, val, color) ==
    IF val # <<>>
    THEN LET h2 == [h EXCEPT !.tl[i]._value = Clamp(val[1], h.tl[i].pot_dimension)]
         IN  IF h2.tl[i]._value # h2.tl[i]._old_value
             THEN LET h3 == MoveCallback(h2, i)
                  IN  Log([h3 EXCEPT !.tl[i]._old_value = h3.tl[i]._value],
                          Call("_show", i, <<>>))
             ELSE h2
    ELSE h

\* Slider.value(val, color); val is <<>> for None and <<n>> for the
\* numerator n.
Slider_value(h, i, val, color) ==
    LET h1 == IF color # None /\ color # h.tl[i].fgcolor
              THEN Log([h EXCEPT !.tl[i].fgcolor = color], Call("_show", i, <<>>))
              ELSE h
    IN  IF val # <<>>
        THEN LET h2 == [h1 EXCEPT !.tl[i]._value = Clamp(val[1], h1.tl[i].pot_dimension)]
             IN  IF h2.tl[i]._value # h2.tl[i]._old_value
                 THEN LET h3 == [h2 EXCEPT !.tl[i]._old_value = h2.tl[i]._value]
                          h4 == MoveCallback(h3, i)
                      IN  Log(h4, Call("_show", i, <<>>))
                 ELSE h2
        ELSE h1

\* Slider.__init__ up to the closing self.value(value), which is the first
\* assignment of _value; border is self.border (0 for None).
Slider(location, height, width, border, cbe_args, cbm_args) ==
    LET b == border
        slideheight == 6
        pot == height - 2 * (b + slideheight \div 2)
    IN  [cls |-> "Slider", border |-> b, pot_dimension |-> pot,
         _value |-> 0, _old_value |-> -pot, cb_move |-> "dolittle",
         cbe_args |-> cbe_args, cbm_args |-> cbm_args]
        @@ Touchable(location, height, width, None, TRUE)

\* Slider._touched: (location[1] + height - y) / pot_dimension
Slider_touched(h, i, x, y) ==
    Slider_value(h, i, <<h.tl[i].location[2] + h.tl[i].height - y>>, None)

\* Mutant of Slider_untouched: the release also resets the value.
Slider_untouched_Resets(h, i) ==
    Log([h EXCEPT !.tl[i]._value = 0], Call("cb_end", i, h.tl[i].cbe_args))

\* Slider._untouched
Slider_untouched(h, i) == Log(h, Call("cb_end", i, h.tl[i].cbe_args))

\* HorizSlider.value(val, color)
HorizSlider_value(h, i, val, color) ==
    LET h1 == IF color # None /\ color # h.tl[i].fgcolor
              THEN Log([h EXCEPT !.tl[i].fgcolor = color], Call("_show", i, <<>>))
              ELSE h
    IN  IF val # <<>>
        THEN LET h2 == [h1 EXCEPT !.tl[i]._value = Clamp(val[1], h1.tl[i].pot_dimension)]
             IN  IF h2.tl[i]._value # h2.tl[i]._old_value
                 THEN LET h3 == [h2 EXCEPT !.tl[i]._old_value = h2.tl[i]._value]
                          h4 == MoveCallback(h3, i)
                      IN  Log(h4, Call("_show", i, <<>>))
                 ELSE h2
        ELSE h1

\* HorizSlider.__init__ up to the closing self.value(value).
HorizSlider(location, height, width, border, cbe_args, cbm_args) ==
    LET b == border
        slidewidth == 6
        pot == width - 2 * (b + slidewidth \div 2)
    IN  [cls |-> "HorizSlider", border |-> b, pot_dimension |-> pot,
         _value |-> 0, _old_value |-> -pot, cb_move |-> "dolittle",
         cbe_args |-> cbe_args, cbm_args |-> cbm_args]
        @@ Touchable(location, height, width, None, TRUE)

\* HorizSlider._touched: (x - location[0]) / pot_dimension
HorizSlider_touched(h, i, x, y) ==
    HorizSlider_value(h, i, <<x - h.tl[i].location[1]>>, None)

\* HorizSlider._untouched
HorizSlider_untouched(h, i) == Log(h, Call("cb_end", i, h.tl[i].cbe_args))

\* Knob._show: draws the pointer and remembers the value drawn; _old_value
\* is <<>> for None.
Knob_show(h, i) ==
    Log([h EXCEPT !.tl[i]._old_value = <<h.tl[i]._value>>], Call("_show", i, <<>>))

\* Knob.value(val)
Knob_value(h, i, val) ==
    IF val # <<>>
    THEN LET v == Clamp(val[1], 4)
         IN  IF v # h.tl[i]._value
             THEN Knob_show(MoveCallback([h EXCEPT !.tl[i]._value = v], i), i)
             ELSE h
    ELSE h

\* Knob.__init__ up to the closing self.value(value), for an even height;
\* border is self.border.  An angle is a whole number of eighths of a turn
\* (pi / 4): arc is min(max(arc, 0), TWOPI), TWOPI being 8.
Knob(location, height, border, arc, cbe_args, cbm_args) ==
    LET radius == height \div 2 - border
    IN  [cls |-> "Knob", border |-> border, radius |-> radius,
         arc |-> IF arc < 0 THEN 0 ELSE IF arc > 8 THEN 8 ELSE arc,
         xorigin |-> location[1] + border + radius,
         yorigin |-> location[2] + border + radius,
         _value |-> -4, _old_value |-> <<>>, cb_move |-> "dolittle",
         cbe_args |-> cbe_args, cbm_args |-> cbm_args]
        @@ Touchable(location, height, height, None, TRUE)

\* math.atan2(dx, dy) in eighths of a turn, for an axis-aligned vector:
\* straight up is 0, right a quarter turn, left minus a quarter turn and
\* straight down half a turn.
Atan2(dx, dy) ==
    CASE dx = 0 /\ dy > 0 -> 0
      [] dx > 0 /\ dy = 0 -> 2
      [] dx < 0 /\ dy = 0 -> -2
      [] dx = 0 /\ dy < 0 -> 4

\* (min(max(alpha, -arc / 2), arc / 2) + arc / 2) / arc in quarters of 1.0,
\* for an arc of a quarter turn, half a turn or a full turn.
KnobTurn(arc, dx, dy) ==
    LET alpha == Atan2(dx, dy)
        half == arc \div 2
        clamped == IF alpha < -half THEN -half
                   ELSE IF alpha > half THEN half ELSE alpha
    IN  (4 * (clamped + half)) \div arc

\* Knob._touched; alpha / arc divides by zero for a Knob whose arc is 0.
Knob_touched(h, i, x, y) ==
    LET dy == h.tl[i].yorigin - y
        dx == x - h.tl[i].xorigin
    IN  IF 2 * (dx * dx + dy * dy) < h.tl[i].radius * h.tl[i].radius
        THEN h
        ELSE IF h.tl[i].arc = 0
        THEN [h EXCEPT !.raised = "ZeroDivisionError"]
        ELSE Knob_value(h, i, <<KnobTurn(h.tl[i].arc, dx, dy)>>)

\* Knob._untouched
Knob_untouched(h, i) == Log(h, Call("cb_end", i, h.tl[i].cbe_args))

\* Meter.__init__ before its closing _show(): value is stored as given.
Meter(location, height, width, value) ==
    [cls |-> "Meter", location |-> location, height |-> height,
     width |-> width, _value |-> value, _old_value |-> -2]

\* Meter.value(val) on NoTouch widget m.
Meter_value(h, m, val) ==
    IF val # <<>>
    THEN LET h1 == [h EXCEPT !.nt[m]._value = Clamp(val[1], 2)]
         IN  IF h1.nt[m]._value # h1.nt[m]._old_value
             THEN Log([h1 EXCEPT !.nt[m]._old_value = h1.nt[m]._value],
                      Call("Meter._show", m, <<>>))
             ELSE h1
    ELSE h

\* ------------------------------------------------------------ dispatch

\* obj._touched(x, y), by class.
Touched(h, i, x, y) ==
    LET h1 == Log([h EXCEPT !.hist[i].touched = Bump(@)],
                  Call("_touched", i, <<x, y>>))
    IN  CASE h.tl[i].cls = "Button" -> Button_touched(h1, i, x, y)
          [] h.tl[i].cls = "IconButton" -> IconButton_touched(h1, i, x, y)
          [] h.tl[i].cls = "Checkbox" -> Checkbox_touched(h1, i, x, y)
          [] h.tl[i].cls = "Slider" -> Slider_touched(h1, i, x, y)
          [] h.tl[i].cls = "HorizSlider" -> HorizSlider_touched(h1, i, x, y)
          [] h.tl[i].cls = "Knob" -> Knob_touched(h1, i, x, y)
          [] OTHER -> h1

\* obj._untouched(), by class.
Untouched(h, i) ==
    LET h1 == Log(h, Call("_untouched", i, <<>>))
    IN  CASE h.tl[i].cls = "Slider" -> Slider_untouched(h1, i)
          [] h.tl[i].cls = "HorizSlider" -> HorizSlider_untouched(h1, i)
          [] h.tl[i].cls = "Knob" -> Knob_untouched(h1, i)
          [] OTHER -> h1

\* Mutant of Inside: the right and the bottom edge are outside the box.
Inside_HalfOpen(w, x, y) ==
    /\ w.location[1] <= x /\ x < w.location[1] + w.width
    /\ w.location[2] <= y /\ y < w.location[2] + w.height

\* The hit test of _trytouch: the box includes its four edges.
Inside(w, x, y) ==
    LET x0 == w.location[1]
        x1 == w.location[1] + w.width
        y0 == w.location[2]
        y1 == w.location[2] + w.height
    IN  x0 <= x /\ x <= x1 /\ y0 <= y /\ y <= y1

\* Mutant of TryTouch: can_drag is ignored, a busy widget is never touched.
TryTouch_IgnoresCanDrag(h, i, x, y) ==
    IF Inside(h.tl[i], x, y)
        THEN LET h1 == [h EXCEPT !.tl[i].was_touched = TRUE]
             IN  IF ~h1.tl[i].busy
                 THEN [Touched(h1, i, x, y) EXCEPT !.tl[i].busy = TRUE]
                 ELSE h1
        ELSE h

\* Touchable._trytouch; an exception raised by _touched leaves before busy
\* is set.
TryTouch(h, i, x, y) ==
    IF Inside(h.tl[i], x, y)
        THEN LET h1 == [h EXCEPT !.tl[i].was_touched = TRUE]
                 h2 == Touched(h1, i, x, y)
             IN  IF ~h1.tl[i].busy \/ h1.tl[i].can_drag
                 THEN IF h2.raised # None THEN h2
                      ELSE [h2 EXCEPT !.tl[i].busy = TRUE]
                 ELSE h1
        ELSE h

\* Mutant of TouchLoop: the loop stops at the first enabled widget hit.
RECURSIVE TouchLoop_FirstMatch(_, _, _, _)
TouchLoop_FirstMatch(h, i, x, y) ==
    IF i > Len(h.tl) THEN h
    ELSE IF h.tl[i].enabled /\ Inside(h.tl[i], x, y) THEN TryTouch(h, i, x, y)
    ELSE TouchLoop_FirstMatch(h, i + 1, x, y)

\* Mutant of TouchLoop: a Button that is not visible is skipped.
RECURSIVE TouchLoop_VisibleOnly(_, _, _, _)
TouchLoop_VisibleOnly(h, i, x, y) ==
    IF i > Len(h.tl) THEN h
    ELSE TouchLoop_VisibleOnly(
             IF h.tl[i].enabled /\ (h.tl[i].cls = "Button" => h.tl[i].visible)
             THEN TryTouch(h, i, x, y) ELSE h,
             i + 1, x, y)

\* for obj in cls.touchlist: if obj.enabled: obj._trytouch(x, y)
RECURSIVE TouchLoop(_, _, _, _)
TouchLoop(h, i, x, y) ==
    IF i > Len(h.tl) \/ h.raised # None THEN h
    ELSE TouchLoop(IF h.tl[i].enabled THEN TryTouch(h, i, x, y) ELSE h,
                   i + 1, x, y)

\* Mutant of ReleaseOne: was_touched is not cleared.
ReleaseOne_KeepsWasTouched(h, i) ==
    IF h.tl[i].was_touched
    THEN Untouched([h EXCEPT !.tl[i].busy = FALSE], i)
    ELSE h

\* Mutant of ReleaseOne: a disabled widget is not released.
ReleaseOne_SkipsDisabled(h, i) ==
    IF h.tl[i].was_touched /\ h.tl[i].enabled
    THEN Untouched([h EXCEPT !.tl[i].was_touched = FALSE,
                             !.tl[i].busy = FALSE], i)
    ELSE h

\* The body of the release loop: if obj.was_touched: clear both flags and
\* call obj._untouched().
ReleaseOne(h, i) ==
    IF h.tl[i].was_touched
    THEN Untouched([h EXCEPT !.tl[i].was_touched = FALSE,
                             !.tl[i].busy = FALSE], i)
    ELSE h

\* for obj in cls.touchlist: if obj.was_touched: ...
RECURSIVE ReleaseLoop(_, _)
ReleaseLoop(h, i) ==
    IF i > Len(h.tl) THEN h
    ELSE ReleaseLoop(ReleaseOne(h, i), i + 1)

\* The summary of a contact starts afresh with its first ready sample.
StartContact(h) ==
    IF h.cycle.phase = "contact" THEN h
    ELSE [h EXCEPT !.cycle = [phase |-> "contact", advances |-> 0,
                              values |-> FALSE, adds |-> FALSE,
                              current0 |-> h.bl.current],
                   !.hist = [i \in 1..Len(h.tl) |->
                                [touched |-> 0, inbox |-> FALSE,
                                 enabled0 |-> h.tl[i].enabled]]]

\* The summary is dropped when the contact ends.
EndContact(h) ==
    [h EXCEPT !.cycle = NoCycle, !.hist = [i \in 1..Len(h.tl) |-> NoHist]]

\* History: which boxes the sample of this iteration lies in.
NoteSample(h, x, y) ==
    [h EXCEPT !.hist = [i \in 1..Len(h.tl) |->
        IF Inside(h.tl[i], x, y) THEN [h.hist[i] EXCEPT !.inbox = TRUE]
        ELSE h.hist[i]]]

\* Mutant of TouchTestBody: every iteration without a ready sample
\* releases.
TouchTestBody_ReleasesUnlessReady(h, ready, touched, x, y) ==
    IF ready THEN TouchLoop(NoteSample(StartContact(h), x, y), 1, x, y)
    ELSE EndContact(ReleaseLoop(h, 1))

\* One iteration of Touchable._touchtest, after the yield.
TouchTestBody(h, ready, touched, x, y) ==
    IF ready THEN TouchLoop(NoteSample(StartContact(h), x, y), 1, x, y)
    ELSE IF ~touched THEN EndContact(ReleaseLoop(h, 1))
    ELSE h

\* ------------------------------------------------------------- actions

Init ==
    /\ touchlist = <<>>
    /\ notouch = <<>>
    /\ objtouch = None
    /\ threads = 0
    /\ buttonlist = [lstbuttons |-> <<>>, current |-> NoObj]
    /\ radio = [lstbuttons |-> <<>>, current |-> NoObj, highlight |-> BLUE,
                selected |-> 0]
    /\ iconradio = [setbuttons |-> {}, selected |-> 0]
    /\ timers = {}
    /\ op = [name |-> "init"]
    /\ calls = <<>>
    /\ cycle = NoCycle
    /\ hist = <<>>

\* Mutant of StartThread: every construction adds a thread.
StartThread_Always ==
    objtouch' = "touch" /\ threads' = threads + 1

\* The tail of Touchable.__init__: the first construction sets objtouch and
\* adds the single _touchtest thread.
StartThread ==
    IF objtouch = None
    THEN objtouch' = "touch" /\ threads' = threads + 1
    ELSE UNCHANGED <<objtouch, threads>>

\* Button(location, litcolor=..., args=...) built by the application.
NewButton(location, height, width, fgcolor, litcolor, args) ==
    /\ Len(touchlist) < MaxWidgets
    /\ Commit(Register(Heap, Button(location, height, width, fgcolor,
                                    litcolor, args)))
    /\ StartThread
    /\ op' = [name |-> "Button"]

\* Slider(location, value=..., cb_move=...) built by the application.
NewSlider(location, height, width, border, value, cb_move) ==
    /\ Len(touchlist) < MaxWidgets
    /\ LET w == Slider(location, height, width, border, <<"end">>, <<"move">>)
           h1 == Register(Heap, [w EXCEPT !.cb_move = cb_move])
       IN  Commit(Slider_value(h1, Len(h1.tl), <<value>>, None))
    /\ StartThread
    /\ op' = [name |-> "Slider"]

\* HorizSlider(location, value=..., cb_move=...) built by the application.
NewHorizSlider(location, height, width, border, value, cb_move) ==
    /\ Len(touchlist) < MaxWidgets
    /\ LET w == HorizSlider(location, height, width, border, <<"end">>, <<"move">>)
           h1 == Register(Heap, [w EXCEPT !.cb_move = cb_move])
       IN  Commit(HorizSlider_value(h1, Len(h1.tl), <<value>>, None))
    /\ StartThread
    /\ op' = [name |-> "HorizSlider"]

\* Knob(location, arc=..., value=..., cb_move=...) built by the application.
NewKnob(location, height, border, arc, value, cb_move) ==
    /\ Len(touchlist) < MaxWidgets
    /\ LET w == Knob(location, height, border, arc, <<"end">>, <<"move">>)
           h1 == Register(Heap, [w EXCEPT !.cb_move = cb_move])
       IN  Commit(Knob_value(h1, Len(h1.tl), <<value>>))
    /\ StartThread
    /\ op' = [name |-> "Knob"]

\* Meter(location, value=...) built by the application; its closing _show()
\* draws the value as given.
NewMeter(location, height, width, value) ==
    /\ Len(notouch) < MaxMeters
    /\ Commit(Log([Heap EXCEPT !.nt = Append(@, Meter(location, height, width, value))],
                  Call("Meter._show", Len(notouch) + 1, <<>>)))
    /\ op' = [name |-> "Meter"]
    /\ UNCHANGED <<objtouch, threads>>

\* widget.value(val) followed by widget.value(), called by the application
\* on the Slider, HorizSlider or Knob i.
SetValue(i, val) ==
    /\ touchlist[i].cls \in {"Slider", "HorizSlider", "Knob"}
    /\ LET h1 == Widget_value(Heap, i, <<val>>)
       IN  /\ Commit(h1)
           /\ op' = [name |-> "value", obj |-> i, val |-> val,
                     result |-> h1.tl[i]._value]
    /\ UNCHANGED <<objtouch, threads>>

\* meter.value(val) followed by meter.value(), called by the application.
MeterValue(m, val) ==
    /\ LET h1 == Meter_value(Heap, m, <<val>>)
       IN  /\ Commit(h1)
           /\ op' = [name |-> "Meter.value", obj |-> m, val |-> val,
                     result |-> h1.nt[m]._value]
    /\ UNCHANGED <<objtouch, threads>>

\* meter.value() alone.
MeterRead(m) ==
    /\ Commit(Heap)
    /\ op' = [name |-> "Meter.value()", obj |-> m, result |-> notouch[m]._value]
    /\ UNCHANGED <<objtouch, threads>>

\* ButtonList.add_button(location, args=...)
AddListButton(location, height, width, fgcolor, litcolor, args) ==
    /\ Len(touchlist) < MaxWidgets
    /\ LET h1 == Register(Heap, Button(location, height, width, fgcolor,
                                       litcolor, args))
           button == Len(h1.tl)
           h2 == [h1 EXCEPT !.bl.lstbuttons = Append(@, button)]
           active == h2.bl.current = NoObj
           h3 == [h2 EXCEPT !.tl[button].visible = active,
                            !.tl[button].enabled = active,
                            !.tl[button].callback = "ButtonList._callback"]
           h4 == IF active THEN [h3 EXCEPT !.bl.current = button] ELSE h3
       IN  Commit([h4 EXCEPT !.cycle.adds = h4.cycle.phase = "contact"])
    /\ StartThread
    /\ op' = [name |-> "ButtonList.add_button"]

\* RadioButtons.add_button(location, fgcolor=..., litcolor=..., args=...)
AddRadioButton(location, height, width, fgcolor, litcolor, args) ==
    /\ Len(touchlist) < MaxWidgets
    /\ LET h1 == Register(Heap, Button(location, height, width, fgcolor,
                                       litcolor, args))
           button == Len(h1.tl)
           h2 == [h1 EXCEPT !.rb.lstbuttons = Append(@, button)]
           active == Len(h2.rb.lstbuttons) = h2.rb.selected + 1
           h3 == [h2 EXCEPT !.tl[button].fgcolor =
                                IF active THEN h2.rb.highlight
                                ELSE h2.tl[button].orig_fgcolor,
                            !.tl[button].callback = "RadioButtons._callback"]
       IN  Commit(IF active THEN [h3 EXCEPT !.rb.current = button] ELSE h3)
    /\ StartThread
    /\ op' = [name |-> "RadioButtons.add_button"]

\* RadioButtons.value(button) called by the application.
RadioValue(button) ==
    /\ LET h1 == RadioButtons_value(Heap, button)
       IN  /\ Commit(h1)
           /\ op' = [name |-> "RadioButtons.value", button |-> button,
                     old |-> radio.current, result |-> h1.rb.current]
    /\ UNCHANGED <<objtouch, threads>>

\* IconRadioButtons.add_button(location, icon_module=..., flash=..., ...)
AddIconRadioButton(location, height, width, num_icons, flash, toggle, args) ==
    /\ Len(touchlist) < MaxWidgets
    /\ LET state == IF iconradio.selected = Cardinality(iconradio.setbuttons)
                    THEN 1 ELSE 0
           h1 == Register(Heap, IconButton(location, height, width, num_icons,
                                           flash, toggle, args, state))
           button == Len(h1.tl)
       IN  Commit([h1 EXCEPT !.irb.setbuttons = @ \cup {button},
                             !.tl[button].callback = "IconRadioButtons._callback"])
    /\ StartThread
    /\ op' = [name |-> "IconRadioButtons.add_button"]

\* The resultset query that ends IconRadioButtons.value: the selected member,
\* or an AssertionError unless exactly one member has state 1.
ResultSet(h) == {b \in h.irb.setbuttons : h.tl[b].state = 1}

\* IconRadioButtons.value(but) called by the application with an
\* IconButton or None.
IconRadioValue(but) ==
    /\ but # NoObj => touchlist[but].cls = "IconButton"
    /\ LET h1 == IconRadioButtons_value(Heap, but)
           member == but = NoObj \/ but \in iconradio.setbuttons
           ok == Cardinality(ResultSet(h1)) = 1
       IN  /\ Commit(h1)
           /\ op' = [name |-> "IconRadioButtons.value", button |-> but,
                     raised |-> IF ~member THEN "ugui_exception"
                                ELSE IF ok THEN None ELSE "AssertionError",
                     result |-> IF member /\ ok
                                THEN CHOOSE b \in ResultSet(h1) : TRUE
                                ELSE NoObj]
    /\ UNCHANGED <<objtouch, threads>>

\* IconButton.value(val) called by the application on widget i; result is
\* -1 when the call raises.
IconValue(i, val) ==
    /\ touchlist[i].cls = "IconButton"
    /\ LET h1 == IconButton_value(Heap, i, val)
           ok == ValidIcon(touchlist[i], val) /\ touchlist[i].state # Unset
       IN  /\ Commit(h1)
           /\ op' = [name |-> "IconButton.value", obj |-> i, val |-> val,
                     raised |-> IF ok THEN None
                                ELSE IF ValidIcon(touchlist[i], val)
                                THEN "AttributeError"
                                ELSE "ugui_exception",
                     result |-> IF ok THEN h1.tl[i].state ELSE -1]
    /\ UNCHANGED <<objtouch, threads>>

\* IconButton(location, icon_module=..., flash=..., toggle=..., state=...)
\* built by the application; Touchable.__init__ has run when the
\* constructor tests its arguments.
NewIconButton(location, height, width, num_icons, flash, toggle, args, state) ==
    /\ Len(touchlist) < MaxWidgets
    /\ Commit(Register(Heap, IconButton_init(location, height, width,
                                             num_icons, flash, toggle, args,
                                             state)))
    /\ StartThread
    /\ op' = [name |-> "IconButton",
              raised |-> IconButton_raises(num_icons, flash, state)]

\* Checkbox(location, value=...) built by the application; value is <<>>
\* for None.
NewCheckbox(location, height, args, value) ==
    /\ Len(touchlist) < MaxWidgets
    /\ LET h1 == Register(Heap, Checkbox(location, height, args))
           i == Len(h1.tl)
       IN  Commit(IF value = <<>>
                  THEN Log(h1, Call("_show", i, <<>>))
                  ELSE Checkbox_value([h1 EXCEPT !.tl[i]._value = ~Bool(value[1])],
                                      i, value))
    /\ StartThread
    /\ op' = [name |-> "Checkbox"]

\* checkbox.value(val) called by the application on widget i.
CheckboxValue(i, val) ==
    /\ touchlist[i].cls = "Checkbox"
    /\ LET h1 == Checkbox_value(Heap, i, <<val>>)
       IN  /\ Commit(h1)
           /\ op' = [name |-> "Checkbox.value", obj |-> i, val |-> val,
                     result |-> h1.tl[i]._value]
    /\ UNCHANGED <<objtouch, threads>>

\* widget.enabled = val, written by the application.
SetEnabled(i, val) ==
    /\ Commit([Heap EXCEPT !.tl[i].enabled = val])
    /\ op' = [name |-> "enabled", obj |-> i, val |-> val]
    /\ UNCHANGED <<objtouch, threads>>

\* button.visible = val, written by the application.
SetVisible(i, val) ==
    /\ touchlist[i].cls = "Button"
    /\ Commit([Heap EXCEPT !.tl[i].visible = val])
    /\ op' = [name |-> "visible", obj |-> i, val |-> val]
    /\ UNCHANGED <<objtouch, threads>>

\* ButtonList.value(button) called by the application.
ListValue(button) ==
    /\ buttonlist.current # NoObj
    /\ LET h1 == ButtonList_value(Heap, button)
           h2 == IF button # NoObj /\ h1.cycle.phase = "contact"
                 THEN [h1 EXCEPT !.cycle.values = TRUE] ELSE h1
       IN  /\ Commit(h2)
           /\ op' = [name |-> "ButtonList.value", button |-> button,
                     old |-> buttonlist.current, result |-> h2.bl.current]
    /\ UNCHANGED <<objtouch, threads>>

\* One iteration of the _touchtest thread for one reading of the panel.  An
\* exception that leaves a handler ends the generator, and with it the
\* thread.
TouchTest(ready, touched, x, y) ==
    /\ threads > 0
    /\ LET h1 == TouchTestBody(Heap, ready, touched, x, y)
       IN  /\ Commit(h1)
           /\ op' = [name |-> "_touchtest", ready |-> ready, touched |-> touched,
                     x |-> IF ready THEN x ELSE 0, y |-> IF ready THEN y ELSE 0,
                     raised |-> h1.raised]
           /\ threads' = IF h1.raised # None THEN threads - 1 ELSE threads
    /\ UNCHANGED objtouch

\* A triggered Delay fires: it runs the callback it was built with.
DelayFire(i) ==
    /\ i \in timers
    /\ LET h1 == [Heap EXCEPT !.timers = @ \ {i}]
           h2 == Log(h1, Call("Delay", i, <<>>))
       IN  Commit(CASE h2.tl[i].cls = "Button" -> Button_shownormal(h2, i)
                    [] h2.tl[i].cls = "IconButton" -> IconButton_show(h2, i, 0)
                    [] OTHER -> h2)
    /\ op' = [name |-> "Delay", obj |-> i]
    /\ UNCHANGED <<objtouch, threads>>

\* ------------------------------------------------------ specifications

\* Inputs of the scenarios: widget origins, callback argument lists, and
\* the panel's (x, y) readings.  Buttons are one unit wide and high, with
\* (1, 1) inside the box at <<0, 0>>, (3, 1) inside the box at <<2, 0>>
\* and every point with y = 2 or y = 9 outside them.  A Slider is 8 high
\* (pot_dimension 2), so that y = 7 is its half-way point.
Locations == {<<0, 0>>, <<2, 0>>}
ListLocation == <<0, 0>>
ArgLists == {<<"A">>, <<"B">>}
SampleXs == {1, 3}
SampleYs == {1, 2}
RadioXs == {1, 3, 5, 7}
ButtonXs == {1, 3, 5}
RadioYs == {1}
SliderYs == {1, 7, 9}

Widgets == 1..Len(touchlist)

\* The panel readings one iteration can see.
Sample(xs, ys) ==
    \/ \E x \in xs, y \in ys : TouchTest(TRUE, TRUE, x, y)
    \/ TouchTest(FALSE, TRUE, 0, 0)
    \/ TouchTest(FALSE, FALSE, 0, 0)

\* Stand-alone buttons and sliders under the dispatch loop.
NextDispatch ==
    \/ \E loc \in Locations : NewButton(loc, 1, 1, GREY, None, <<"A">>)
    \/ NewSlider(<<2, 0>>, 8, 1, 0, 0, "dolittle")
    \/ Sample(SampleXs, SliderYs)

SpecDispatch == Init /\ [][NextDispatch]_vars

\* A ButtonList whose members, all at one location, are added, touched and
\* selected.
NextButtonList ==
    \/ \E a \in ArgLists : AddListButton(ListLocation, 1, 1, GREY, None, a)
    \/ \E b \in {NoObj} \cup Widgets : ListValue(b)
    \/ Sample({1}, SampleYs)

SpecButtonList == Init /\ [][NextButtonList]_vars

\* The panel readings of the continuous scenario: on the Slider at <<0, 0>>
\* (8 high, pot_dimension 2), on the HorizSlider at <<2, 0>> (8 wide),
\* straight above the centre of the Knob at <<2, 2>> (4 high) and outside
\* every box.
ControlPoints ==
    {<<1, 7>>, <<3, 1>>, <<4, 2>>, <<9, 9>>}

\* The values the application passes to value(): below 0, one step, and
\* above 1.
ValueInputs(steps) == {-1, 1, steps + 1}

\* No widget of the class is on the screen yet.
Absent(cls) == \A i \in Widgets : touchlist[i].cls # cls

\* A screen of at most MaxControls widgets out of a Slider, a HorizSlider
\* and a Knob.  Their values are set by the application and by touches; the
\* move callbacks re-read and re-set the value.
NextContinuous ==
    \/ /\ Len(touchlist) < MaxControls /\ Absent("Slider")
       /\ NewSlider(<<0, 0>>, 8, 1, 0, 0, "reenter")
    \/ /\ Len(touchlist) < MaxControls /\ Absent("HorizSlider")
       /\ NewHorizSlider(<<2, 0>>, 1, 8, 0, 0, "reenter")
    \/ /\ Len(touchlist) < MaxControls /\ Absent("Knob")
       /\ NewKnob(<<2, 2>>, 4, 0, 8, 0, "reenter")
    \/ \E i \in Widgets : \E v \in ValueInputs(Steps(touchlist[i])) : SetValue(i, v)
    \/ \E p \in ControlPoints : TouchTest(TRUE, TRUE, p[1], p[2])
    \/ TouchTest(FALSE, TRUE, 0, 0)
    \/ TouchTest(FALSE, FALSE, 0, 0)

\* Sliders, knobs and Meters constructed with values inside and outside
\* [0, 1] and set by the application; no touch is involved.
NextValues ==
    \/ /\ Len(touchlist) < MaxControls
       /\ \E v \in ValueInputs(2) : NewSlider(<<0, 0>>, 8, 1, 0, v, "dolittle")
    \/ /\ Len(touchlist) < MaxControls
       /\ \E v \in ValueInputs(2) : NewHorizSlider(<<2, 0>>, 1, 8, 0, v, "dolittle")
    \/ /\ Len(touchlist) < MaxControls
       /\ \E v \in ValueInputs(4) : NewKnob(<<2, 2>>, 4, 0, 8, v, "dolittle")
    \/ \E v \in ValueInputs(2) : NewMeter(<<12, 0>>, 8, 1, v)
    \/ \E i \in Widgets : \E v \in ValueInputs(Steps(touchlist[i])) : SetValue(i, v)
    \/ \E m \in 1..Len(notouch) : \E v \in ValueInputs(2) : MeterValue(m, v)
    \/ \E m \in 1..Len(notouch) : MeterRead(m)

SpecValues == Init /\ [][NextValues]_vars

SpecContinuous == Init /\ [][NextContinuous]_vars

\* The HorizSliders of the touch-mapping scenario, <<width, border>>, and
\* the x readings: the left edge and the midpoints of their boxes at
\* <<2, 0>>.
HorizKinds == {<<8, 0>>, <<20, 0>>, <<20, 1>>}
HorizXs == {2, 6, 12}

\* HorizSliders of several widths and borders, touched along their length.
NextHorizSlider ==
    \/ \E k \in HorizKinds :
           NewHorizSlider(<<2, 0>>, 1, k[1], k[2], 0, "dolittle")
    \/ Sample(HorizXs, {1})

SpecHorizSlider == Init /\ [][NextHorizSlider]_vars

\* The members of a radio group stand in a row, as in buttontest.py: the
\* n-th widget constructed is at x = 2 * (n - 1) and passes its own letter to
\* the callback.
RowLocation == <<2 * Len(touchlist), 0>>
RowArgs == <<<<"A">>, <<"B">>, <<"C">>, <<"D">>, <<"E">>>>[Len(touchlist) + 1]

\* A RadioButtons group whose members, with or without a litcolor, are
\* added, touched and selected while their Delays fire.
NextRadioButtons ==
    \/ \E lit \in {None, WHITE} :
           AddRadioButton(RowLocation, 1, 1, GREY, lit, RowArgs)
    \/ \E b \in {NoObj} \cup Widgets : RadioValue(b)
    \/ Sample(RadioXs, RadioYs)
    \/ \E i \in Widgets : DelayFire(i)

SpecRadioButtons == Init /\ [][NextRadioButtons]_vars

\* The icon buttons of the scenarios: <<num_icons, flash, toggle>>.
IconKinds == {<<2, 0, FALSE>>, <<3, 0, TRUE>>, <<2, 1, FALSE>>}

\* An IconRadioButtons group whose members are added, touched, selected
\* and set while their Delays fire.
NextIconRadioButtons ==
    \/ \E k \in IconKinds :
           AddIconRadioButton(RowLocation, 1, 1, k[1], k[2], k[3], RowArgs)
    \/ \E b \in {NoObj} \cup Widgets : IconRadioValue(b)
    \/ \E i \in Widgets, v \in 0..2 : IconValue(i, v)
    \/ Sample(RadioXs, RadioYs)
    \/ \E i \in Widgets : DelayFire(i)

SpecIconRadioButtons == Init /\ [][NextIconRadioButtons]_vars

\* A RadioButtons group of buttons with a litcolor and an IconRadioButtons
\* group of toggling 3-icon buttons on one screen, their members in one row.
NextRadioGroups ==
    \/ AddRadioButton(RowLocation, 1, 1, GREY, WHITE, RowArgs)
    \/ AddIconRadioButton(RowLocation, 1, 1, 3, 0, TRUE, RowArgs)
    \/ \E b \in {NoObj} \cup Widgets :
           /\ b # NoObj => touchlist[b].cls = "Button"
           /\ RadioValue(b)
    \/ \E b \in {NoObj} \cup iconradio.setbuttons : IconRadioValue(b)
    \/ Sample(ButtonXs, RadioYs)
    \/ \E i \in Widgets : DelayFire(i)

SpecRadioGroups == Init /\ [][NextRadioGroups]_vars

\* No IconButton of the kind is on the screen yet.
AbsentKind(k) ==
    \A i \in Widgets :
        touchlist[i].cls = "IconButton" =>
            <<touchlist[i].num_icons, touchlist[i].flash, touchlist[i].toggle>> # k

\* Stand-alone IconButtons, one of a kind, and a Checkbox in a row, set by
\* the application (also with indices out of range) and touched, while the
\* flash Delays fire.
NextIconButton ==
    \/ /\ Len(touchlist) < MaxIcons
       /\ \E k \in IconKinds :
              /\ AbsentKind(k)
              /\ NewIconButton(RowLocation, 1, 1, k[1], k[2], k[3], RowArgs, 0)
    \/ /\ Len(touchlist) < MaxIcons /\ Absent("Checkbox")
       /\ \E v \in {<<>>, <<1>>} : NewCheckbox(RowLocation, 1, RowArgs, v)
    \/ \E i \in Widgets, v \in -1..3 : IconValue(i, v)
    \/ \E i \in Widgets, v \in {0, 2} : CheckboxValue(i, v)
    \/ Sample(RadioXs, RadioYs)
    \/ \E i \in Widgets : DelayFire(i)

SpecIconButton == Init /\ [][NextIconButton]_vars

\* The screen of overlapping widgets: Buttons two units wide and high at
\* <<0, 0>> and <<1, 1>> and a Slider one unit wide and 8 high at <<2, 0>>.
\* The reading (2, 2) lies in all three boxes, (0, 0) on a corner of the
\* first Button only, (3, 3) on a corner of the second Button and in the
\* Slider, and (4, 4) in no box.
ScreenBoxes == {<<0, 0>>, <<1, 1>>}
ScreenPoints == {<<2, 2>>, <<0, 0>>, <<3, 3>>, <<4, 4>>}

\* No widget stands at the location yet.
Vacant(location) == \A i \in Widgets : touchlist[i].location # location

\* Overlapping stand-alone Buttons and a Slider, built in any order, enabled
\* and disabled by the application while the panel is read.
NextScreen ==
    \/ \E loc \in ScreenBoxes :
           Vacant(loc) /\ NewButton(loc, 2, 2, GREY, None, RowArgs)
    \/ Vacant(<<2, 0>>) /\ NewSlider(<<2, 0>>, 8, 1, 0, 0, "dolittle")
    \/ \E i \in Widgets : SetEnabled(i, ~touchlist[i].enabled)
    \/ \E p \in ScreenPoints : TouchTest(TRUE, TRUE, p[1], p[2])
    \/ TouchTest(FALSE, TRUE, 0, 0)
    \/ TouchTest(FALSE, FALSE, 0, 0)

SpecScreen == Init /\ [][NextScreen]_vars

\* A row of stand-alone Buttons without litcolor, shown, hidden, enabled
\* and disabled by the application while the panel is read.
NextVisible ==
    \/ /\ Len(touchlist) < MaxButtons
       /\ NewButton(RowLocation, 1, 1, GREY, None, RowArgs)
    \/ \E i \in Widgets : SetEnabled(i, ~touchlist[i].enabled)
    \/ \E i \in Widgets : SetVisible(i, ~touchlist[i].visible)
    \/ Sample(ButtonXs, RadioYs)

SpecVisible == Init /\ [][NextVisible]_vars

\* A row of stand-alone Buttons with a litcolor, constructed with and without
\* an fgcolor, touched while their Delays fire.
NextFlash ==
    \/ /\ Len(touchlist) < MaxButtons
       /\ \E fg \in {GREY, None} :
              NewButton(RowLocation, 1, 1, fg, WHITE, RowArgs)
    \/ Sample(ButtonXs, RadioYs)
    \/ \E i \in Widgets : DelayFire(i)

SpecFlash == Init /\ [][NextFlash]_vars

\* The readings of the hit-test scenario: every point of a grid around the
\* box of a Button one unit wide and two high at <<1, 1>> (x from 1 to 2,
\* y from 1 to 3) and the box of a Slider one unit wide and 8 high at
\* <<3, 2>> (x from 3 to 4, y from 2 to 10).
HitXs == 0..5
HitYs == {0, 1, 2, 3, 4, 10, 11}

\* A Button and a Slider touched on, inside and just outside their edges.
NextHitTest ==
    \/ Vacant(<<1, 1>>) /\ NewButton(<<1, 1>>, 2, 1, GREY, None, RowArgs)
    \/ Vacant(<<3, 2>>) /\ NewSlider(<<3, 2>>, 8, 1, 0, 0, "dolittle")
    \/ Sample(HitXs, HitYs)

SpecHitTest == Init /\ [][NextHitTest]_vars

\* The Knobs of the dead-zone scenario stand at <<0, 0>> and are 8 high:
\* the radius is 4 and the centre (4, 4).  Their arcs are none, half a turn
\* and a full turn.  The readings lie on the axes through the centre, at
\* the distances 0, 2, 3 and 4 from it.
KnobArcs == {0, 4, 8}
KnobPoints ==
    {<<4, 4>>, <<4, 2>>, <<6, 4>>, <<4, 1>>, <<7, 4>>, <<1, 4>>, <<4, 7>>, <<4, 0>>}

\* A Knob of some arc, turned by touches and set by the application.
NextKnob ==
    \/ \E arc \in KnobArcs :
           Vacant(<<0, 0>>) /\ NewKnob(<<0, 0>>, 8, 0, arc, 0, "dolittle")
    \/ \E i \in Widgets : \E v \in ValueInputs(4) : SetValue(i, v)
    \/ \E p \in KnobPoints : TouchTest(TRUE, TRUE, p[1], p[2])
    \/ TouchTest(FALSE, TRUE, 0, 0)
    \/ TouchTest(FALSE, FALSE, 0, 0)

SpecKnob == Init /\ [][NextKnob]_vars

\* An IconRadioButtons group of flashing buttons next to one stand-alone
\* IconButton that is not a member; the group is queried and set with
\* members, with the stand-alone button and with None.
NextIconGroup ==
    \/ AddIconRadioButton(RowLocation, 1, 1, 2, 1, FALSE, RowArgs)
    \/ /\ AbsentKind(<<2, 0, FALSE>>)
       /\ NewIconButton(RowLocation, 1, 1, 2, 0, FALSE, RowArgs, 0)
    \/ \E b \in {NoObj} \cup Widgets : IconRadioValue(b)
    \/ Sample(RadioXs, RadioYs)
    \/ \E i \in Widgets : DelayFire(i)

SpecIconGroup == Init /\ [][NextIconGroup]_vars

\* The constructor calls of the construction scenario: icon count, flash,
\* toggle and initial state; the first of each pair is accepted, except
\* for the one-icon flashing button, which is refused with either state.
BuildKinds == {<<1, 1, FALSE>>, <<2, 1, FALSE>>, <<2, 0, TRUE>>}
BuildStates == {0, 2}

\* IconButtons in a row, built with arguments the constructor accepts and
\* with arguments it refuses, then set and touched while the Delays fire.
NextConstruct ==
    \/ /\ Len(touchlist) < MaxIcons
       /\ \E k \in BuildKinds, st \in BuildStates :
              NewIconButton(RowLocation, 1, 1, k[1], k[2], k[3], RowArgs, st)
    \/ \E i \in Widgets, v \in {0, 1} : IconValue(i, v)
    \/ Sample(SampleXs, RadioYs)
    \/ \E i \in Widgets : DelayFire(i)

SpecConstruct == Init /\ [][NextConstruct]_vars

\* -------------------------------------------------------------- claims

IsTouchTest == op.name = "_touchtest"

\* The last operation was a dispatch iteration with a contact sample.
IsSample == IsTouchTest /\ op.ready

\* The last operation was a dispatch iteration that saw no contact.
IsNoContact == IsTouchTest /\ ~op.ready /\ ~op.touched

\* Positions in a log of the invocations of fn.
Calls(log, fn) == {k \in 1..Len(log) : log[k].fn = fn}

Members == {buttonlist.lstbuttons[k] : k \in 1..Len(buttonlist.lstbuttons)}

\* The successor of member b in the list, cyclically.
Successor(b) ==
    LET lst == buttonlist.lstbuttons
    IN  lst[((Index0(lst, b) + 1) % Len(lst)) + 1]

\* C1: a dispatch iteration that observes no contact invokes _untouched
\* exactly once on every widget whose was_touched flag is set, and clears
\* its was_touched and busy; it invokes _untouched on no other widget, so a
\* following no-contact iteration invokes it zero times.
C1_ReleaseOnce ==
    [][(op'.name = "_touchtest" /\ ~op'.ready /\ ~op'.touched) =>
        \A i \in Widgets :
            IF touchlist[i].was_touched
            THEN /\ Count(calls', "_untouched", i) = 1
                 /\ ~touchlist'[i].was_touched
                 /\ ~touchlist'[i].busy
            ELSE Count(calls', "_untouched", i) = 0]_vars

\* C1 witness: a no-contact iteration has released a slider and a button.
C1_Witness ==
    /\ IsNoContact
    /\ \E i, j \in Widgets :
        /\ touchlist[i].cls = "Slider" /\ Count(calls, "_untouched", i) = 1
        /\ touchlist[j].cls = "Button" /\ Count(calls, "_untouched", j) = 1

\* C2: a non-drag widget that was enabled when the contact began and has
\* had a sample of the contact delivered inside its box has had its touched
\* handler invoked exactly once in this contact.
C2_TouchedOncePerContact ==
    \A i \in Widgets :
        (~touchlist[i].can_drag /\ hist[i].enabled0 /\ touchlist[i].was_touched)
            => hist[i].touched = 1

\* C3: a dispatch iteration whose sample lies inside the box of an enabled
\* drag-capable widget invokes that widget's touched handler, whether or not
\* the widget is busy.
C3_DragEverySample ==
    IsSample =>
        \A i \in Widgets :
            (touchlist[i].can_drag /\ touchlist[i].enabled
                /\ Inside(touchlist[i], op.x, op.y))
                => Count(calls, "_touched", i) = 1

\* C3 witness: a busy slider is touched again by a later sample of the
\* same contact.
C3_Witness ==
    /\ IsSample
    /\ \E i \in Widgets :
        /\ touchlist[i].can_drag /\ hist[i].touched = 2
        /\ Count(calls, "_touched", i) = 1

\* C4: once the RadioButtons group has a member, exactly one member has
\* its foreground set to the group's highlight colour.
C4_RadioExactlyOne ==
    Len(radio.lstbuttons) >= 1 =>
        Cardinality({k \in 1..Len(radio.lstbuttons) :
            touchlist[radio.lstbuttons[k]].fgcolor = radio.highlight}) = 1

\* C5: once the IconRadioButtons group has a member, exactly one member has
\* state 1.
C5_IconRadioExactlyOne ==
    iconradio.setbuttons # {} =>
        Cardinality({b \in iconradio.setbuttons : touchlist[b].state = 1}) = 1

\* C6: once the ButtonList has a member, its current member is visible and
\* enabled and every other member is invisible and disabled.
C6_ButtonListExactlyOne ==
    Members # {} =>
        /\ buttonlist.current \in Members
        /\ \A b \in Members :
            IF b = buttonlist.current
            THEN touchlist[b].visible /\ touchlist[b].enabled
            ELSE ~touchlist[b].visible /\ ~touchlist[b].enabled

\* C6 witness: a touch on the last of several members has wrapped the list
\* to its first member.
C6_Witness ==
    /\ IsSample
    /\ Len(buttonlist.lstbuttons) >= 2
    /\ Calls(calls, "ButtonList._callback") # {}
    /\ buttonlist.current = buttonlist.lstbuttons[1]

\* C7: the no-contact iteration that ends a contact which began with a
\* current member, had a sample inside that member's box and saw no value()
\* or add_button call leaves as current member the cyclic successor of the
\* member that was current when the contact began.
C7_EachTouchAdvancesByOne ==
    [][(/\ op'.name = "_touchtest" /\ ~op'.ready /\ ~op'.touched
        /\ cycle.phase = "contact"
        /\ cycle.current0 # NoObj
        /\ ~cycle.values /\ ~cycle.adds
        /\ hist[cycle.current0].inbox)
            => buttonlist'.current = Successor(cycle.current0)]_vars

\* C8: in a contact with no value(button) call, ButtonList._callback has
\* run at most once.
C8_HeldTouchAdvancesOnce ==
    ~cycle.values => cycle.advances <= 1

\* C8 witness: a held contact that has wrapped the list to its first member
\* delivers a further sample inside the box, which invokes nothing.
C8_Witness ==
    /\ IsSample /\ cycle.advances = 1 /\ ~cycle.values
    /\ Len(buttonlist.lstbuttons) >= 2
    /\ buttonlist.current = buttonlist.lstbuttons[1]
    /\ Inside(touchlist[buttonlist.current], op.x, op.y)
    /\ calls = <<>>

\* The last operation was a touch that advanced the list.
TouchAdvance == IsTouchTest /\ Calls(calls, "ButtonList._callback") # {}

\* The last operation was a value(button) call that changed the current
\* member.
ValueChange ==
    op.name = "ButtonList.value" /\ op.button # NoObj /\ op.button # op.old

\* C9 as stated: on every transition the user callback is invoked exactly
\* once, with the new current member followed by the new current member's
\* own callback_args.
C9_CallbackWithNewArgs ==
    (TouchAdvance \/ ValueChange) =>
        /\ Cardinality(Calls(calls, "user_callback")) = 1
        /\ \A k \in Calls(calls, "user_callback") :
            /\ calls[k].obj = buttonlist.current
            /\ calls[k].args = touchlist[buttonlist.current].callback_args

\* C9 amended: on every transition the user callback is invoked exactly
\* once with the new current member as first argument.  After value(button)
\* the remaining arguments are the new current member's callback_args; after
\* a touch they are the callback_args of the button that was touched.
C9_CallbackArgs ==
    /\ (TouchAdvance \/ ValueChange) =>
        /\ Cardinality(Calls(calls, "user_callback")) = 1
        /\ \A k \in Calls(calls, "user_callback") :
            calls[k].obj = buttonlist.current
    /\ ValueChange =>
        \A k \in Calls(calls, "user_callback") :
            calls[k].args = touchlist[buttonlist.current].callback_args
    /\ TouchAdvance =>
        /\ Cardinality(Calls(calls, "_touched")) = 1
        /\ \A k \in Calls(calls, "user_callback"), t \in Calls(calls, "_touched") :
            calls[k].args = touchlist[calls[t].obj].callback_args

\* C9 witness: a touch has advanced the list from a member to a member with
\* other callback_args.
C9_Witness ==
    /\ TouchAdvance
    /\ \E t \in Calls(calls, "_touched") :
        touchlist[calls[t].obj].callback_args
            # touchlist[buttonlist.current].callback_args

\* C10: value(b) for a member b.  If b is current, no widget and no field
\* of the list changes and nothing is invoked; otherwise the old current
\* member becomes invisible and disabled, b becomes visible, enabled and
\* current, and the user callback is invoked exactly once.  The call
\* returns the current member.
C10_ValueOfMember ==
    [][(op'.name = "ButtonList.value" /\ op'.button # NoObj) =>
        LET b == op'.button
            old == buttonlist.current
        IN  /\ op'.result = buttonlist'.current
            /\ IF b = old
               THEN /\ touchlist' = touchlist
                    /\ buttonlist' = buttonlist
                    /\ calls' = <<>>
               ELSE /\ ~touchlist'[old].visible /\ ~touchlist'[old].enabled
                    /\ touchlist'[b].visible /\ touchlist'[b].enabled
                    /\ buttonlist'.current = b
                    /\ Cardinality(Calls(calls', "user_callback")) = 1
                    /\ Len(calls') = 1]_vars

\* C10 witness: value(b) has made the first member current again, away from
\* a later member.
C10_Witness ==
    /\ ValueChange
    /\ op.button = buttonlist.lstbuttons[1]
    /\ op.result = op.button

\* The Sliders, HorizSliders and Knobs constructed.
Controls == {i \in Widgets : touchlist[i].cls \in {"Slider", "HorizSlider", "Knob"}}

Meters == 1..Len(notouch)

\* C11: value(v) followed by value() returns min(max(v, 0), 1) on a Slider,
\* HorizSlider, Knob or Meter, and the stored value of every constructed
\* widget lies within [0, 1].
C11_ClampedValues ==
    /\ op.name = "value" =>
        op.result = Clamp(op.val, Steps(touchlist[op.obj]))
    /\ op.name = "Meter.value" =>
        op.result = Clamp(op.val, Steps(notouch[op.obj]))
    /\ \A i \in Controls :
        touchlist[i]._value \in 0..Steps(touchlist[i])
    /\ \A m \in Meters :
        notouch[m]._value \in 0..Steps(notouch[m])

\* C12: value(v) on a Slider, HorizSlider or Knob whose value already is
\* the clamped v invokes nothing, neither the move callback nor a redraw;
\* with another clamped v it invokes the move callback exactly once.
C12_MoveCallbackGated ==
    [][op'.name = "value" =>
        LET i == op'.obj
            w == touchlist[i]
        IN  IF Clamp(op'.val, Steps(w)) = w._value
            THEN calls' = <<>>
            ELSE Count(calls', "cb_move", i) = 1]_vars

\* C12 witness: value(v) with v below 0 on a Knob that stands at 0 has
\* invoked nothing.
C12_Witness ==
    /\ op.name = "value" /\ op.val < 0
    /\ touchlist[op.obj].cls = "Knob"
    /\ calls = <<>>

\* C13: whenever a move callback reads value(), it reads the value the
\* operation has stored, and the value(v) it then calls with that v does
\* not invoke the move callback again.
C13_CommittedBeforeCallback ==
    \A k \in Calls(calls, "value()") :
        /\ calls[k].args = <<touchlist[calls[k].obj]._value>>
        /\ op.name = "value" =>
            calls[k].args = <<Clamp(op.val, Steps(touchlist[op.obj]))>>
        /\ k < Len(calls) => calls[k + 1].fn # "cb_move"
        /\ Count(calls, "cb_move", calls[k].obj) = 1

\* C13 witness: a touch has moved a HorizSlider, whose move callback has
\* read the value and set it again.
C13_Witness ==
    /\ IsSample
    /\ \E k \in Calls(calls, "value()") :
        /\ touchlist[calls[k].obj].cls = "HorizSlider"
        /\ calls[k].args[1] > 0

\* C14: the release of a touched Slider, HorizSlider or Knob invokes its end
\* callback exactly once, with the widget and its cbe_args, and neither the
\* move callback nor a redraw; no field of the widget but was_touched and
\* busy changes.
C14_ReleaseFiresEndOnly ==
    [][(op'.name = "_touchtest" /\ ~op'.ready /\ ~op'.touched) =>
        \A i \in Controls :
            touchlist[i].was_touched =>
                /\ Count(calls', "cb_end", i) = 1
                /\ \A k \in Calls(calls', "cb_end") :
                    calls'[k].obj = i => calls'[k].args = touchlist[i].cbe_args
                /\ Count(calls', "cb_move", i) = 0
                /\ Count(calls', "_show", i) = 0
                /\ touchlist'[i] = [touchlist[i] EXCEPT !.was_touched = FALSE,
                                                        !.busy = FALSE]]_vars

\* C14 witness: a no-contact iteration has released a Slider that a touch
\* had moved away from 0.
C14_Witness ==
    /\ IsNoContact
    /\ \E i \in Controls :
        /\ touchlist[i].cls = "Slider"
        /\ touchlist[i]._value > 0
        /\ Count(calls, "cb_end", i) = 1

\* C15: a touch at the horizontal midpoint of a HorizSlider's box sets its
\* value to 0.5 to within one pixel (1 / pot_dimension), and a touch at its
\* left edge sets it to 0.
C15_HorizSliderMidpoint ==
    IsSample =>
        \A i \in Widgets :
            LET w == touchlist[i] IN
            (w.cls = "HorizSlider" /\ Inside(w, op.x, op.y)) =>
                /\ op.x = w.location[1] + w.width \div 2 =>
                    /\ 2 * w._value - w.pot_dimension <= 2
                    /\ w.pot_dimension - 2 * w._value <= 2
                /\ op.x = w.location[1] => w._value = 0

\* C16: Checkbox.value(v) with bool(v) equal to the value changes and
\* invokes nothing; with another v it stores bool(v) and invokes the
\* callback and one redraw; a delivered touch flips the value and invokes
\* the callback exactly once.
C16_CheckboxToggles ==
    [][/\ op'.name = "Checkbox.value" =>
            LET i == op'.obj IN
            IF Bool(op'.val) = touchlist[i]._value
            THEN touchlist' = touchlist /\ calls' = <<>>
            ELSE /\ touchlist'[i]._value = Bool(op'.val)
                 /\ Count(calls', "callback", i) = 1
                 /\ Count(calls', "_show", i) = 1
       /\ op'.name = "_touchtest" =>
            \A i \in Widgets :
                (touchlist[i].cls = "Checkbox" /\ Count(calls', "_touched", i) > 0) =>
                    /\ Count(calls', "_touched", i) = 1
                    /\ touchlist'[i]._value = ~touchlist[i]._value
                    /\ Count(calls', "callback", i) = 1]_vars

\* C16 witness: a touch has cleared a Checkbox that was set.
C16_Witness ==
    /\ IsSample
    /\ \E i \in Widgets :
        /\ touchlist[i].cls = "Checkbox"
        /\ Count(calls, "_touched", i) = 1
        /\ ~touchlist[i]._value

\* C17: IconButton.value(v) with v outside [0, num_icons) raises, changes
\* no widget and invokes nothing.
C17_InvalidIconRaises ==
    [][(op'.name = "IconButton.value"
            /\ (op'.val < 0 \/ op'.val >= touchlist[op'.obj].num_icons)) =>
        /\ op'.raised = "ugui_exception"
        /\ touchlist' = touchlist
        /\ calls' = <<>>]_vars

\* C17 witness: value(v) with v = num_icons has raised on a button that
\* shows icon 0.
C17_Witness ==
    /\ op.name = "IconButton.value"
    /\ op.raised = "ugui_exception"
    /\ op.val = touchlist[op.obj].num_icons
    /\ touchlist[op.obj].state = 0

\* C18: IconButton.value(v) with a valid v invokes the callback once if v
\* differs from the state and not at all if it is equal; a delivered touch
\* invokes the callback exactly once.
C18_IconCallbackGating ==
    [][/\ (op'.name = "IconButton.value" /\ op'.raised = None) =>
            Count(calls', "callback", op'.obj)
                = IF op'.val # touchlist[op'.obj].state THEN 1 ELSE 0
       /\ op'.name = "_touchtest" =>
            \A i \in Widgets :
                (touchlist[i].cls = "IconButton" /\ Count(calls', "_touched", i) > 0) =>
                    Count(calls', "callback", i) = 1]_vars

\* C18 witness: a touch on an IconButton that neither flashes nor toggles
\* has invoked the callback and left the state as it was.
C18_Witness ==
    /\ IsSample
    /\ \E i \in Widgets :
        /\ touchlist[i].cls = "IconButton"
        /\ touchlist[i].flash = 0 /\ ~touchlist[i].toggle
        /\ touchlist[i].state = 0
        /\ Count(calls, "_touched", i) = 1
        /\ Count(calls, "callback", i) = 1

\* C19: a delivered touch on a stand-alone IconButton with flash > 0 sets
\* its state to 1, invokes the callback exactly once and arms its timer;
\* the firing of the timer sets the state to 0 and invokes no callback.
C19_FlashReverts ==
    [][/\ op'.name = "_touchtest" =>
            \A i \in Widgets :
                (/\ touchlist[i].cls = "IconButton" /\ touchlist[i].flash > 0
                 /\ Count(calls', "_touched", i) > 0) =>
                    /\ touchlist'[i].state = 1
                    /\ Count(calls', "callback", i) = 1
                    /\ i \in timers'
       /\ (op'.name = "Delay" /\ touchlist[op'.obj].cls = "IconButton") =>
            /\ touchlist'[op'.obj].state = 0
            /\ Count(calls', "callback", op'.obj) = 0]_vars

\* C19 witness: the flash timer of a touched IconButton has fired.
C19_Witness ==
    /\ op.name = "Delay"
    /\ touchlist[op.obj].cls = "IconButton"
    /\ touchlist[op.obj].flash > 0
    /\ touchlist[op.obj].state = 0

RadioMembers == {radio.lstbuttons[k] : k \in 1..Len(radio.lstbuttons)}

\* In a log, the selection of member b has invoked the user callback
\* exactly once, with b and b's callback_args, when b alone was selected.
SelectedOnce(log, b) ==
    /\ Count(log, "user_callback", b) = 1
    /\ \A k \in Calls(log, "user_callback") :
        log[k].obj = b =>
            /\ log[k].args = touchlist[b].callback_args
            /\ k > 1
            /\ log[k - 1] = Call("selected", b, <<{b}>>)

\* C20: value(b) for an unselected member b of a RadioButtons or an
\* IconRadioButtons group, and every delivered touch of a member b, invokes
\* the user callback exactly once, after the members have been updated so
\* that b alone is selected, with b and b's own callback_args; b alone is
\* selected when the operation ends.
C20_RadioCallbackPerSelection ==
    [][/\ (op'.name = "RadioButtons.value" /\ op'.button # NoObj
            /\ op'.button # radio.current) =>
            /\ SelectedOnce(calls', op'.button)
            /\ Cardinality(Calls(calls', "user_callback")) = 1
            /\ {b \in RadioMembers : touchlist'[b].fgcolor = radio.highlight}
                   = {op'.button}
       /\ (op'.name = "IconRadioButtons.value" /\ op'.button # NoObj
            /\ touchlist[op'.button].state # 1) =>
            /\ SelectedOnce(calls', op'.button)
            /\ Cardinality(Calls(calls', "user_callback")) = 1
            /\ {b \in iconradio.setbuttons : touchlist'[b].state = 1}
                   = {op'.button}
            /\ op'.result = op'.button
       /\ op'.name = "_touchtest" =>
            \A b \in RadioMembers \cup iconradio.setbuttons :
                Count(calls', "_touched", b) > 0 =>
                    /\ SelectedOnce(calls', b)
                    /\ b \in RadioMembers =>
                        {c \in RadioMembers : touchlist'[c].fgcolor = radio.highlight}
                            = {b}
                    /\ b \in iconradio.setbuttons =>
                        {c \in iconradio.setbuttons : touchlist'[c].state = 1} = {b}]_vars

\* C20 witness: in an IconRadioButtons group of three members, value(b) has
\* selected the first member again, away from another member.
C20_Witness ==
    /\ Cardinality(iconradio.setbuttons) = 3
    /\ op.name = "IconRadioButtons.value"
    /\ op.button = 1 /\ op.result = 1
    /\ Calls(calls, "user_callback") # {}
    /\ {b \in iconradio.setbuttons : touchlist[b].state = 1} = {1}

\* C21: IconRadioButtons.value(b) with a button b that is not a member
\* raises, changes no widget and invokes nothing; otherwise the query raises
\* when the number of members with state 1 is not exactly one, and returns
\* the member with state 1 when there is exactly one.
C21_QueryChecked ==
    [][op'.name = "IconRadioButtons.value" =>
        LET b == op'.button
            selected == {m \in iconradio'.setbuttons : touchlist'[m].state = 1}
        IN  IF b # NoObj /\ b \notin iconradio.setbuttons
            THEN /\ op'.raised # None
                 /\ touchlist' = touchlist
                 /\ calls' = <<>>
            ELSE IF Cardinality(selected) = 1
                 THEN op'.raised = None /\ op'.result \in selected
                 ELSE op'.raised # None]_vars

\* C21 witness: the query has raised on a group of two members none of
\* which has state 1.
C21_Witness ==
    /\ op.name = "IconRadioButtons.value"
    /\ op.raised = "AssertionError"
    /\ Cardinality(iconradio.setbuttons) = 2
    /\ \A m \in iconradio.setbuttons : touchlist[m].state = 0

\* What a widget is constructed with and keeps.
Identity(w) == <<w.cls, w.location, w.height, w.width>>

\* C22: at most one _touchtest thread is ever added to the scheduler, and it
\* is there from the first construction of a touchable widget on; every
\* construction appends its widget to touchlist, and no operation removes
\* or reorders the widgets registered.
C22_SingleThreadAppendOnly ==
    [][/\ threads' <= 1
       /\ threads' >= threads
       /\ (threads' = 1) <=> (touchlist' # <<>>)
       /\ Len(touchlist') = Len(touchlist) + (IF op'.name \in {"Button", "Slider"} THEN 1 ELSE 0)
       /\ op'.name \in {"Button", "Slider"} =>
              touchlist'[Len(touchlist')].cls = op'.name
       /\ \A i \in Widgets : Identity(touchlist'[i]) = Identity(touchlist[i])]_vars

\* C22 witness: a Slider has been constructed after two Buttons, with one
\* thread running.
C22_Witness ==
    /\ op.name = "Slider"
    /\ Len(touchlist) = 3
    /\ touchlist[1].cls = "Button" /\ touchlist[2].cls = "Button"
    /\ threads = 1

\* C23: in a dispatch iteration with a contact sample, every enabled widget
\* whose box contains the sample is marked was_touched, each of them that
\* is not busy or can be dragged has _touched invoked once, no other widget
\* has, and the invocations are in registration order; overlapping widgets
\* all fire.
C23_FanOutInOrder ==
    [][(op'.name = "_touchtest" /\ op'.ready) =>
        LET hit == {i \in Widgets : /\ touchlist[i].enabled
                                     /\ Inside(touchlist[i], op'.x, op'.y)}
            fired == {i \in hit : ~touchlist[i].busy \/ touchlist[i].can_drag}
        IN  /\ \A i \in hit : touchlist'[i].was_touched /\ touchlist'[i].busy
            /\ \A i \in Widgets \ hit : touchlist'[i] = touchlist[i]
            /\ \A i \in Widgets :
                   Count(calls', "_touched", i) = IF i \in fired THEN 1 ELSE 0
            /\ \A j, k \in Calls(calls', "_touched") :
                   j < k => calls'[j].obj < calls'[k].obj]_vars

\* C23 witness: one sample in the boxes of three widgets has invoked
\* _touched on all three.
C23_Witness ==
    /\ IsSample
    /\ Len(touchlist) = 3
    /\ \A i \in Widgets : Count(calls, "_touched", i) = 1

\* C24: writing enabled invokes nothing and changes no other field; while a
\* widget is disabled a contact sample invokes no _touched on it and leaves
\* its busy and was_touched as they are; the next no-contact iteration
\* invokes _untouched exactly once on a disabled widget whose was_touched is
\* set, and clears its flags.
C24_DisabledMidTouch ==
    [][/\ op'.name = "enabled" =>
            /\ calls' = <<>>
            /\ touchlist' = [touchlist EXCEPT ![op'.obj].enabled = op'.val]
       /\ (op'.name = "_touchtest" /\ op'.ready) =>
            \A i \in Widgets :
                ~touchlist[i].enabled =>
                    /\ Count(calls', "_touched", i) = 0
                    /\ touchlist'[i] = touchlist[i]
       /\ (op'.name = "_touchtest" /\ ~op'.ready /\ ~op'.touched) =>
            \A i \in Widgets :
                (~touchlist[i].enabled /\ touchlist[i].was_touched) =>
                    /\ Count(calls', "_untouched", i) = 1
                    /\ touchlist'[i] = [touchlist[i] EXCEPT !.was_touched = FALSE,
                                                             !.busy = FALSE]]_vars

\* C24 witness: a no-contact iteration has released a Button that was
\* disabled while it was touched.
C24_Witness ==
    /\ IsNoContact
    /\ \E i \in Widgets :
        /\ touchlist[i].cls = "Button"
        /\ ~touchlist[i].enabled
        /\ Count(calls, "_untouched", i) = 1

\* C25: a contact sample in the box of a Button that is enabled and not
\* busy invokes _touched and the callback once, with the button's args,
\* whether the button is visible or not; a disabled Button is not invoked;
\* and the iteration changes neither visible nor enabled.
C25_VisibleIsNoGate ==
    [][(op'.name = "_touchtest" /\ op'.ready) =>
        \A i \in Widgets :
            LET n == IF /\ touchlist[i].enabled /\ ~touchlist[i].busy
                        /\ Inside(touchlist[i], op'.x, op'.y)
                     THEN 1 ELSE 0
            IN  /\ Count(calls', "_touched", i) = n
                /\ Count(calls', "callback", i) = n
                /\ \A k \in Calls(calls', "callback") :
                       calls'[k].obj = i => calls'[k].args = touchlist[i].callback_args
                /\ touchlist'[i].visible = touchlist[i].visible
                /\ touchlist'[i].enabled = touchlist[i].enabled]_vars

\* C25 witness: a sample has invoked the callback of a Button that is
\* enabled and not visible.
C25_Witness ==
    /\ IsSample
    /\ \E i \in Widgets :
        /\ touchlist[i].cls = "Button"
        /\ ~touchlist[i].visible /\ touchlist[i].enabled
        /\ Count(calls, "callback", i) = 1

\* The widgets after the Delay of Button i has run its callback on them.
Reverted(tl, i) == Button_shownormal([tl |-> tl], i).tl

\* C26: a delivered touch on a Button with a litcolor sets fgcolor to the
\* litcolor, invokes the callback exactly once with the button and its args
\* and arms the timer; the firing of the timer gives the button the fgcolor
\* it had immediately before the touch, and a second firing changes nothing.
C26_FlashRestores ==
    [][/\ (op'.name = "_touchtest" /\ op'.ready) =>
            \A i \in Widgets :
                (/\ touchlist[i].cls = "Button" /\ touchlist[i].litcolor # None
                 /\ Count(calls', "_touched", i) > 0) =>
                    /\ touchlist'[i].fgcolor = touchlist[i].litcolor
                    /\ Count(calls', "callback", i) = 1
                    /\ \A k \in Calls(calls', "callback") :
                           calls'[k].obj = i =>
                               calls'[k].args = touchlist[i].callback_args
                    /\ i \in timers'
                    /\ Reverted(touchlist', i)[i].fgcolor = touchlist[i].fgcolor
       /\ (op'.name = "Delay" /\ touchlist[op'.obj].cls = "Button") =>
            /\ touchlist' = Reverted(touchlist, op'.obj)
            /\ Reverted(touchlist', op'.obj) = touchlist'
            /\ calls' = <<Call("Delay", op'.obj, <<>>)>>]_vars

\* C27: a contact sample (x, y) is a hit on an enabled widget exactly when
\* location.x <= x <= location.x + width and location.y <= y <=
\* location.y + height: on a hit was_touched is set and _touched is invoked
\* unless the widget is busy and cannot be dragged; on a miss no handler is
\* invoked and the widget is unchanged.
C27_HitTest ==
    [][(op'.name = "_touchtest" /\ op'.ready) =>
        \A i \in Widgets :
            LET w == touchlist[i]
                hit == /\ w.location[1] <= op'.x /\ op'.x <= w.location[1] + w.width
                       /\ w.location[2] <= op'.y /\ op'.y <= w.location[2] + w.height
            IN  IF hit
                THEN /\ touchlist'[i].was_touched
                     /\ (~w.busy \/ w.can_drag) => Count(calls', "_touched", i) = 1
                ELSE /\ \A k \in 1..Len(calls') : calls'[k].obj # i
                     /\ touchlist'[i] = w]_vars

\* C27 witness: a sample on the bottom right corner of the Button's box has
\* invoked its handler.
C27_Witness ==
    /\ IsSample
    /\ \E i \in Widgets :
        /\ touchlist[i].cls = "Button"
        /\ op.x = touchlist[i].location[1] + touchlist[i].width
        /\ op.y = touchlist[i].location[2] + touchlist[i].height
        /\ Count(calls, "_touched", i) = 1

\* C28: when a contact sample inside the box of a Slider, HorizSlider or
\* Knob is followed, without a lift, by a sample outside the box, the
\* iteration of the second sample invokes the widget's _untouched.
C28_MovedAwayReleases ==
    [][(/\ IsSample
        /\ op'.name = "_touchtest" /\ op'.ready) =>
        \A i \in Controls :
            (/\ touchlist[i].was_touched
             /\ Inside(touchlist[i], op.x, op.y)
             /\ ~Inside(touchlist[i], op'.x, op'.y)) =>
                Count(calls', "_untouched", i) = 1]_vars

\* C29: a touch on a Knob at a squared distance from the centre below half
\* the squared radius leaves the value as it is and invokes neither the
\* move callback nor a redraw; a touch at or beyond that distance sets the
\* value to the position of the angle, clamped to the arc, within the arc,
\* which lies in [0, 1].
C29_KnobDeadZone ==
    [][(op'.name = "_touchtest" /\ op'.ready) =>
        \A i \in Widgets :
            (touchlist[i].cls = "Knob" /\ Inside(touchlist[i], op'.x, op'.y)) =>
                LET w == touchlist[i]
                    dx == op'.x - w.xorigin
                    dy == w.yorigin - op'.y
                IN  IF 2 * (dx * dx + dy * dy) < w.radius * w.radius
                    THEN /\ touchlist'[i]._value = w._value
                         /\ Count(calls', "cb_move", i) = 0
                         /\ Count(calls', "_show", i) = 0
                    ELSE /\ op'.raised = None
                         /\ touchlist'[i]._value \in 0..4
                         /\ touchlist'[i]._value = KnobTurn(w.arc, dx, dy)]_vars

\* C30: right after a dispatch iteration that observes no contact, no
\* registered widget is busy or has was_touched set.
C30_IdleAfterNoContact ==
    IsNoContact =>
        \A i \in Widgets : ~touchlist[i].busy /\ ~touchlist[i].was_touched


\* C31: a construction of an IconButton that raises leaves the registry
\* and the number of dispatch threads as they were before the call.
C31_FailedConstructionLeavesRegistry ==
    [][(op'.name = "IconButton" /\ op'.raised # None) =>
           /\ touchlist' = touchlist
           /\ threads' = threads]_vars


\* The selection of the two radio groups on heap h: the current member and
\* the highlighted members of the RadioButtons, and the members of the
\* IconRadioButtons that show icon 1.
Selection(h) ==
    <<h.rb.current,
      {b \in {h.rb.lstbuttons[k] : k \in 1..Len(h.rb.lstbuttons)} :
          h.tl[b].fgcolor = h.rb.highlight},
      {b \in h.irb.setbuttons : h.tl[b].state = 1}>>

\* The invocations of the user callback on heap h, in order, with their
\* arguments.
UserCallbacks(h) == SelectSeq(h.calls, LAMBDA c : c.fn = "user_callback")

\* C32: for every member b of a RadioButtons or IconRadioButtons group, in
\* every state, a touch delivered to b and the call value(b) end with the
\* same selection and the same user-callback invocations with the same
\* arguments.
C32_TouchEqualsValue ==
    /\ \A b \in RadioMembers :
           LET ht == Touched(Heap, b, 0, 0)
               hv == RadioButtons_value(Heap, b)
           IN  /\ Selection(ht) = Selection(hv)
               /\ UserCallbacks(ht) = UserCallbacks(hv)
    /\ \A b \in iconradio.setbuttons :
           LET ht == Touched(Heap, b, 0, 0)
               hv == IconRadioButtons_value(Heap, b)
           IN  /\ Selection(ht) = Selection(hv)
               /\ UserCallbacks(ht) = UserCallbacks(hv)


\* C33: when ButtonList.value(b) is called between two samples of one
\* contact held on the group's location, the sample that follows the call
\* does not advance the list: current is still b.
C33_ValueDuringHeldTouch ==
    [][(/\ op.name = "ButtonList.value" /\ op.button # NoObj
        /\ cycle.phase = "contact"
        /\ \E i \in Widgets : hist[i].inbox
        /\ op'.name = "_touchtest" /\ op'.ready
        /\ Inside(touchlist[op.button], op'.x, op'.y))
           => buttonlist'.current = op.button]_vars


\* C34: a dispatch iteration in which the panel reports touched but not
\* ready invokes no handler and no callback and leaves every widget (busy,
\* was_touched, enabled, value and every other field), every controller
\* and the dispatch thread as they were.
C34_NotReadyIsNoOp ==
    [][(op'.name = "_touchtest" /\ ~op'.ready /\ op'.touched) =>
           /\ calls' = <<>>
           /\ touchlist' = touchlist
           /\ notouch' = notouch
           /\ <<buttonlist', radio', iconradio', timers'>>
                  = <<buttonlist, radio, iconradio, timers>>
           /\ threads' = threads]_vars

\* C34 witness: a touched-but-not-ready iteration has run in the middle of
\* a contact that holds a Button busy and has moved a Slider.
C34_Witness ==
    /\ op.name = "_touchtest" /\ ~op.ready /\ op.touched
    /\ \E i, j \in Widgets :
        /\ touchlist[i].cls = "Button"
        /\ touchlist[i].was_touched /\ touchlist[i].busy
        /\ touchlist[j].cls = "Slider"
        /\ touchlist[j].was_touched /\ touchlist[j]._value > 0

=========================================================================
